---------------------------- MODULE Spec2Model ----------------------------
(***************************************************************************)
(* State-synchronisation logic of the notes page (component Home and its   *)
(* child NoteEditor) together with the remote notes API it talks to.       *)
(*                                                                         *)
(* Every React event handler and every promise continuation is one atomic  *)
(* action: React 18 batches all setState calls made in one handler or one  *)
(* continuation, and the effects that depend on the changed state run      *)
(* before the next event.  An HTTP request is a record in `net`; the       *)
(* server answers it in one step (Serve) and the client's continuation     *)
(* runs in a later step (Deliver), so responses may be delivered in any    *)
(* order.  The server itself is not part of the repository: it is          *)
(* modelled from the HTTP interface the resource client is written         *)
(* against.                                                                *)
(*                                                                         *)
(* Strings typed by the user are sequences of the letter "a"; the empty    *)
(* string is <<>>.  A `Note | null` value is a sequence of at most one     *)
(* note; `string | null` values use the string NULL for null.  The         *)
(* timestamps of a note are never read by Home and are left out.           *)
(***************************************************************************)
EXTENDS Integers, Sequences, FiniteSets, Bags, TLC

VARIABLES
    notes,         \* Home: list cache, useState<Note[]>
    activeId,      \* Home: useState<string | null>
    activeNote,    \* Home: useState<Note | null>
    isNewNote,     \* Home: useState(false)
    loading,       \* Home: useState(false)
    error,         \* Home: useState<string | null>
    localTitle,    \* NoteEditor: draft title
    localContent,  \* NoteEditor: draft content
    net,           \* bag of HTTP requests in flight
    db,            \* server: the stored notes, in creation order
    nextId,        \* server: number of the next id to assign
    gone           \* history: ids whose delete and its list refresh both succeeded

vars == <<notes, activeId, activeNote, isNewNote, loading, error,
          localTitle, localContent, net, db, nextId, gone>>

client == <<notes, activeId, activeNote, isNewNote, loading, error,
            localTitle, localContent>>

-----------------------------------------------------------------------------
(* Bounds *)

MaxNotes == 2      \* ids the server ever assigns
MaxLen == 1        \* longest text the user types
MaxNet == 2        \* requests in flight at once, when the user does not wait
MaxSeq == 1        \* requests in flight at once, when the user waits for each

-----------------------------------------------------------------------------
(* Values *)

NULL == "null"
NewId == "new"

ErrLoadNotes == "Could not load notes"
ErrFetchNote == "Could not fetch note"
ErrSaveNote == "Could not save note"
ErrDeleteNote == "Could not delete note"

EmptyText == <<>>
Text == UNION {[1..n -> {"a"}] : n \in 0..MaxLen}

\* The ids the server has assigned so far ("1", "2", ...).
AssignedIds == {ToString(n) : n \in 1..(nextId - 1)}

Note(id, title, content) == [id |-> id, title |-> title, content |-> content]

\* The placeholder note of create mode.
Placeholder == Note(NewId, EmptyText, EmptyText)

Ids(list) == {list[i].id : i \in 1..Len(list)}

\* A request: what fetch() was called with (kind, id, title, content), the
\* code that awaits it (src), its progress (st: sent, then ok or fail once the
\* server has answered) and the response body (resp).  The other fields are
\* history: for a refresh, the kind of the request whose success triggered
\* it (cause) and the id that request created, updated or deleted (cid); for
\* a note fetch, activeId and isNewNote as they were before the Select that
\* caused it (from).
NoSel == <<NULL, FALSE>>

Req(kind, src, id, title, content, cause, cid, from) ==
    [kind |-> kind, src |-> src, id |-> id, title |-> title, content |-> content,
     st |-> "sent", resp |-> <<>>, cause |-> cause, cid |-> cid, from |-> from]

Outstanding == BagCardinality(net)
Send(r) == net (+) SetToBag({r})
Drop(r) == net (-) SetToBag({r})

-----------------------------------------------------------------------------
(* Resource client *)

fetchNotes(src, cause, cid) ==
    Req("list", src, NULL, EmptyText, EmptyText, cause, cid, NoSel)

fetchNote(id) ==
    Req("get", "effect", id, EmptyText, EmptyText, "none", NULL, <<activeId, isNewNote>>)

createNote(title, content) ==
    Req("create", "save", NULL, title, content, "none", NULL, NoSel)

updateNote(id, title, content) ==
    Req("update", "save", id, title, content, "none", NULL, NoSel)

deleteNote(id) ==
    Req("delete", "delete", id, EmptyText, EmptyText, "none", NULL, NoSel)

Mutating == {"create", "update", "delete"}

-----------------------------------------------------------------------------
(* NoteEditor *)

\* Home renders NoteEditor when isNewNote || activeNote.
EditorShown == isNewNote \/ activeNote # <<>>

\* The draft the editor holds once it has been given `note`: useState's
\* initial value on mount and the effect on [note] on every new note
\* object; every setActiveNote call of Home passes a new object.
DraftOf(note) ==
    IF note = <<>> THEN <<EmptyText, EmptyText>>
    ELSE <<note[1].title, note[1].content>>

\* A Save button with disabled={loading}.
SaveDisabledWhileLoading == loading

\* disabled={loading || (!localTitle && !localContent)} on the Save button.
SaveDisabled == loading \/ (localTitle = EmptyText /\ localContent = EmptyText)

\* The Delete button is rendered when !isNew, with disabled={loading}.
DeleteDisabled == isNewNote \/ loading

-----------------------------------------------------------------------------
(* Home *)

\* The state after the first render and its effects: the mount effect has
\* set loading and issued the list request; the effect on
\* [activeId, isNewNote] has taken its last branch, setActiveNote(null).
\* The server holds no note, or one note.
InitDbs == {<<>>, <<Note("1", [i \in 1..MaxLen |-> "a"], EmptyText)>>}

Init ==
    /\ notes = <<>>
    /\ activeId = NULL
    /\ activeNote = <<>>
    /\ isNewNote = FALSE
    /\ loading = TRUE
    /\ error = NULL
    /\ localTitle = EmptyText
    /\ localContent = EmptyText
    /\ net = SetToBag({fetchNotes("mount", "none", NULL)})
    /\ db \in InitDbs
    /\ nextId = Len(db) + 1
    /\ gone = {}

\* NoteEditor receives a new note object (or none).
SetActiveNote(note) ==
    /\ activeNote' = note
    /\ localTitle' = DraftOf(note)[1]
    /\ localContent' = DraftOf(note)[2]

\* handleAddNew without its own setActiveNote call: the placeholder is set by
\* the effect on [activeId, isNewNote], which runs only when one of them
\* changed.
handleAddNewByEffect ==
    /\ isNewNote' = TRUE
    /\ activeId' = NewId
    /\ IF isNewNote /\ activeId = NewId
       THEN UNCHANGED <<activeNote, localTitle, localContent>>
       ELSE SetActiveNote(<<Placeholder>>)
    /\ UNCHANGED <<notes, loading, error, net, db, nextId, gone>>

\* handleAddNew, from the button or from Ctrl/Cmd+N; then the effect on
\* [activeId, isNewNote], which sets the placeholder again.
handleAddNew ==
    /\ isNewNote' = TRUE
    /\ activeId' = NewId
    /\ SetActiveNote(<<Placeholder>>)
    /\ UNCHANGED <<notes, loading, error, net, db, nextId, gone>>

\* handleSelectNote without its setIsNewNote(false).
SelectIsNewKept == isNewNote

\* What handleSelectNote(id) stores in isNewNote.
SelectIsNew == FALSE

\* The effect on [activeId, isNewNote] runs only when one of them changed.
SelectionChanged(id) == activeId # id \/ isNewNote # SelectIsNew

\* handleSelectNote(id), from a row of the sidebar, which lists `notes`;
\* then the effect on [activeId, isNewNote]: with a real id and not in
\* create mode it sets loading and fetches the note.  activeNote and the
\* editor's draft are left as they are.
handleSelectNote(id, cap) ==
    /\ id \in Ids(notes)
    /\ isNewNote' = SelectIsNew
    /\ activeId' = id
    /\ IF SelectionChanged(id)
       THEN IF ~isNewNote'
               THEN /\ Outstanding < cap
                    /\ loading' = TRUE
                    /\ net' = Send(fetchNote(id))
                    /\ UNCHANGED <<activeNote, localTitle, localContent>>
               ELSE /\ SetActiveNote(<<Placeholder>>)
                    /\ UNCHANGED <<loading, net>>
       ELSE UNCHANGED <<activeNote, localTitle, localContent, loading, net>>
    /\ UNCHANGED <<notes, error, db, nextId, gone>>

\* Typing in the title input or the textarea (disabled={loading}); Home's
\* onChange is a no-op.
EditTitle(v) ==
    /\ EditorShown
    /\ ~loading
    /\ localTitle' = v
    /\ UNCHANGED <<notes, activeId, activeNote, isNewNote, loading, error,
                   localContent, net, db, nextId, gone>>

EditContent(v) ==
    /\ EditorShown
    /\ ~loading
    /\ localContent' = v
    /\ UNCHANGED <<notes, activeId, activeNote, isNewNote, loading, error,
                   localTitle, net, db, nextId, gone>>

\* The request handleSave(title, content) issues.
SaveRequest(title, content) ==
    IF isNewNote THEN createNote(title, content)
    ELSE updateNote(activeNote[1].id, title, content)

\* handleSave with a setError(null) before its await.
handleSaveClearsError(cap) ==
    /\ EditorShown
    /\ ~SaveDisabled
    /\ Outstanding < cap
    /\ loading' = TRUE
    /\ error' = NULL
    /\ net' = Send(SaveRequest(localTitle, localContent))
    /\ UNCHANGED <<notes, activeId, activeNote, isNewNote,
                   localTitle, localContent, db, nextId, gone>>

\* A click on Save: handleSave up to its await.
handleSave(cap) ==
    /\ EditorShown
    /\ ~SaveDisabled
    /\ Outstanding < cap
    /\ loading' = TRUE
    /\ net' = Send(SaveRequest(localTitle, localContent))
    /\ UNCHANGED <<notes, activeId, activeNote, isNewNote, error,
                   localTitle, localContent, db, nextId, gone>>

\* A click on Delete: handleDelete up to its await.
handleDelete(cap) ==
    /\ EditorShown
    /\ ~DeleteDisabled
    /\ ~(activeNote = <<>> \/ isNewNote)
    /\ Outstanding < cap
    /\ loading' = TRUE
    /\ net' = Send(deleteNote(activeNote[1].id))
    /\ UNCHANGED <<notes, activeId, activeNote, isNewNote, error,
                   localTitle, localContent, db, nextId, gone>>

\* The dismiss button of the error banner, rendered when error is set.
DismissError ==
    /\ error # NULL
    /\ error' = NULL
    /\ UNCHANGED <<notes, activeId, activeNote, isNewNote, loading,
                   localTitle, localContent, net, db, nextId, gone>>

-----------------------------------------------------------------------------
(* Server *)

Find(list, id) == CHOOSE i \in 1..Len(list) : list[i].id = id

Replace(list, note) ==
    [i \in 1..Len(list) |-> IF list[i].id = note.id THEN note ELSE list[i]]

Remove(list, id) == SelectSeq(list, LAMBDA n : n.id # id)

Answer(r, st, resp) == Drop(r) (+) SetToBag({[r EXCEPT !.st = st, !.resp = resp]})

\* Any request may end in a non-2xx status or a transport failure; the
\* stored notes are then unchanged.
ServeFail(r) ==
    /\ r \in BagToSet(net)
    /\ r.st = "sent"
    /\ net' = Answer(r, "fail", <<>>)
    /\ UNCHANGED <<client, db, nextId, gone>>

\* GET /notes
ServeList(r) ==
    /\ r \in BagToSet(net)
    /\ r.st = "sent" /\ r.kind = "list"
    /\ net' = Answer(r, "ok", db)
    /\ UNCHANGED <<client, db, nextId, gone>>

\* GET /notes/{id}: non-2xx on a missing id.
ServeGet(r) ==
    /\ r \in BagToSet(net)
    /\ r.st = "sent" /\ r.kind = "get"
    /\ r.id \in Ids(db)
    /\ net' = Answer(r, "ok", <<db[Find(db, r.id)]>>)
    /\ UNCHANGED <<client, db, nextId, gone>>

\* POST /notes: the server assigns the id.
ServeCreate(r) ==
    /\ r \in BagToSet(net)
    /\ r.st = "sent" /\ r.kind = "create"
    /\ nextId <= MaxNotes
    /\ LET n == Note(ToString(nextId), r.title, r.content)
       IN /\ db' = Append(db, n)
          /\ net' = Answer(r, "ok", <<n>>)
    /\ nextId' = nextId + 1
    /\ UNCHANGED <<client, gone>>

\* PUT /notes/{id}
ServeUpdate(r) ==
    /\ r \in BagToSet(net)
    /\ r.st = "sent" /\ r.kind = "update"
    /\ r.id \in Ids(db)
    /\ LET n == Note(r.id, r.title, r.content)
       IN /\ db' = Replace(db, n)
          /\ net' = Answer(r, "ok", <<n>>)
    /\ UNCHANGED <<client, nextId, gone>>

\* DELETE /notes/{id}
ServeDelete(r) ==
    /\ r \in BagToSet(net)
    /\ r.st = "sent" /\ r.kind = "delete"
    /\ r.id \in Ids(db)
    /\ db' = Remove(db, r.id)
    /\ net' = Answer(r, "ok", <<>>)
    /\ UNCHANGED <<client, nextId, gone>>

-----------------------------------------------------------------------------
(* Home: promise continuations *)

Answered(r, src) == r \in BagToSet(net) /\ r.st # "sent" /\ r.src = src

\* The mount effect's then / catch / finally.
MountLoaded(r) ==
    /\ Answered(r, "mount")
    /\ IF r.st = "ok"
       THEN notes' = r.resp /\ UNCHANGED error
       ELSE error' = ErrLoadNotes /\ UNCHANGED notes
    /\ loading' = FALSE
    /\ net' = Drop(r)
    /\ UNCHANGED <<activeId, activeNote, isNewNote, localTitle, localContent,
                   db, nextId, gone>>

\* refresh's then / catch.
Refreshed(r) ==
    /\ Answered(r, "refresh")
    /\ IF r.st = "ok"
       THEN /\ notes' = r.resp
            /\ gone' = IF r.cause = "delete" THEN gone \cup {r.cid} ELSE gone
            /\ UNCHANGED error
       ELSE error' = ErrLoadNotes /\ UNCHANGED <<notes, gone>>
    /\ net' = Drop(r)
    /\ UNCHANGED <<activeId, activeNote, isNewNote, loading, localTitle,
                   localContent, db, nextId>>

\* A catch that also drops the note the editor shows.
CatchFetchClearsNote ==
    /\ error' = ErrFetchNote
    /\ activeNote' = <<>>
    /\ localTitle' = EmptyText
    /\ localContent' = EmptyText

\* .catch(() => setError("Could not fetch note"))
CatchFetch ==
    /\ error' = ErrFetchNote
    /\ UNCHANGED <<activeNote, localTitle, localContent>>

\* A fetch effect whose then ignores the response unless its id is still the
\* selected one.
NoteFetchedIfCurrent(r) ==
    /\ Answered(r, "effect")
    /\ IF r.st = "ok"
       THEN /\ IF r.id = activeId /\ ~isNewNote
                  THEN SetActiveNote(r.resp)
                  ELSE UNCHANGED <<activeNote, localTitle, localContent>>
            /\ UNCHANGED error
       ELSE CatchFetch
    /\ loading' = FALSE
    /\ net' = Drop(r)
    /\ UNCHANGED <<notes, activeId, isNewNote, db, nextId, gone>>

\* The then / catch / finally of the fetch in the effect on
\* [activeId, isNewNote].
NoteFetched(r) ==
    /\ Answered(r, "effect")
    /\ IF r.st = "ok"
       THEN SetActiveNote(r.resp) /\ UNCHANGED error
       ELSE CatchFetch
    /\ loading' = FALSE
    /\ net' = Drop(r)
    /\ UNCHANGED <<notes, activeId, isNewNote, db, nextId, gone>>

\* The id a successful create, update or delete was about.
Subject(r) == IF r.kind = "create" THEN r.resp[1].id ELSE r.id

\* The list request of refresh(), called after a successful save or delete.
refresh(r) == fetchNotes("refresh", r.kind, Subject(r))

\* The reset without its setActiveId(null).
DeselectKeepsActiveId ==
    /\ isNewNote' = FALSE
    /\ activeId' = activeId
    /\ activeNote' = <<>>
    /\ localTitle' = EmptyText
    /\ localContent' = EmptyText

\* What handleSave and handleDelete do to the selection after their await;
\* the effect on [activeId, isNewNote] then sets activeNote to null again.
Deselect ==
    /\ isNewNote' = FALSE
    /\ activeId' = NULL
    /\ SetActiveNote(<<>>)

\* A catch block that also closes the editor.
CatchSaveClosesEditor ==
    /\ error' = ErrSaveNote
    /\ activeNote' = <<>>
    /\ localTitle' = EmptyText
    /\ localContent' = EmptyText
    /\ UNCHANGED <<activeId, isNewNote>>

\* catch { setError("Could not save note") }
CatchSave ==
    /\ error' = ErrSaveNote
    /\ UNCHANGED <<activeId, activeNote, isNewNote, localTitle, localContent>>

\* handleSave with refresh() moved into finally.
SaveDoneRefreshesAlways(r) ==
    /\ r \in BagToSet(net) /\ r.st # "sent" /\ r.src = "save"
    /\ IF r.st = "ok"
       THEN /\ isNewNote' = FALSE
            /\ activeId' = NULL
            /\ activeNote' = <<>>
            /\ localTitle' = EmptyText
            /\ localContent' = EmptyText
            /\ UNCHANGED error
       ELSE /\ error' = ErrSaveNote
            /\ UNCHANGED <<activeId, activeNote, isNewNote, localTitle, localContent>>
    /\ net' = (net (-) SetToBag({r}))
                 (+) SetToBag({fetchNotes("refresh", r.kind, r.id)})
    /\ loading' = FALSE
    /\ UNCHANGED <<notes, db, nextId, gone>>

\* handleSave with setLoading(false) at the end of try in place of finally.
SaveDoneNoFinally(r) ==
    /\ r \in BagToSet(net) /\ r.st # "sent" /\ r.src = "save"
    /\ IF r.st = "ok"
       THEN /\ isNewNote' = FALSE
            /\ activeId' = NULL
            /\ activeNote' = <<>>
            /\ localTitle' = EmptyText
            /\ localContent' = EmptyText
            /\ net' = (net (-) SetToBag({r}))
                         (+) SetToBag({fetchNotes("refresh", r.kind,
                                IF r.kind = "create" THEN r.resp[1].id ELSE r.id)})
            /\ loading' = FALSE
            /\ UNCHANGED error
       ELSE /\ error' = ErrSaveNote
            /\ net' = net (-) SetToBag({r})
            /\ UNCHANGED <<activeId, activeNote, isNewNote, localTitle,
                           localContent, loading>>
    /\ UNCHANGED <<notes, db, nextId, gone>>

\* handleSave after its await: the rest of try, or catch; then finally.
SaveDone(r) ==
    /\ Answered(r, "save")
    /\ IF r.st = "ok"
       THEN /\ Deselect
            /\ net' = Drop(r) (+) SetToBag({refresh(r)})
            /\ UNCHANGED error
       ELSE /\ CatchSave
            /\ net' = Drop(r)
    /\ loading' = FALSE
    /\ UNCHANGED <<notes, db, nextId, gone>>

\* A catch block that deselects as the success path does.
CatchDeleteDeselects ==
    /\ error' = ErrDeleteNote
    /\ isNewNote' = FALSE
    /\ activeId' = NULL
    /\ activeNote' = <<>>
    /\ localTitle' = EmptyText
    /\ localContent' = EmptyText

\* catch { setError("Could not delete note") }
CatchDelete ==
    /\ error' = ErrDeleteNote
    /\ UNCHANGED <<activeId, activeNote, isNewNote, localTitle, localContent>>

\* handleDelete after its await: the rest of try, or catch; then finally.
DeleteDone(r) ==
    /\ Answered(r, "delete")
    /\ IF r.st = "ok"
       THEN /\ Deselect
            /\ net' = Drop(r) (+) SetToBag({refresh(r)})
            /\ UNCHANGED error
       ELSE /\ CatchDelete
            /\ net' = Drop(r)
    /\ loading' = FALSE
    /\ UNCHANGED <<notes, db, nextId, gone>>

-----------------------------------------------------------------------------

\* The user's intents.  `cap` is the number of requests that may be in flight
\* when an intent issues one more; `typed` is what the user types as content.
User(cap, typed) ==
    \/ handleAddNew
    \/ \E id \in Ids(notes) : handleSelectNote(id, cap)
    \/ \E v \in Text : EditTitle(v)
    \/ \E v \in typed : EditContent(v)
    \/ handleSave(cap)
    \/ handleDelete(cap)
    \/ DismissError

Server ==
    \/ \E r \in BagToSet(net) : ServeFail(r)
    \/ \E r \in BagToSet(net) : ServeList(r)
    \/ \E r \in BagToSet(net) : ServeGet(r)
    \/ \E r \in BagToSet(net) : ServeCreate(r)
    \/ \E r \in BagToSet(net) : ServeUpdate(r)
    \/ \E r \in BagToSet(net) : ServeDelete(r)

Completions ==
    \/ \E r \in BagToSet(net) : MountLoaded(r)
    \/ \E r \in BagToSet(net) : Refreshed(r)
    \/ \E r \in BagToSet(net) : NoteFetched(r)
    \/ \E r \in BagToSet(net) : SaveDone(r)
    \/ \E r \in BagToSet(net) : DeleteDone(r)

\* Spec: the user acts without waiting for outstanding requests and edits
\* titles; the content of a draft is only ever cleared.
Next == User(MaxNet, {EmptyText}) \/ Server \/ Completions

Spec == Init /\ [][Next]_vars

\* SpecDraft: the user edits both fields and waits for the outstanding
\* request before causing another.
NextDraft == User(MaxSeq, Text) \/ Server \/ Completions

SpecDraft == Init /\ [][NextDraft]_vars

-----------------------------------------------------------------------------
(* Vocabulary of the properties *)

Idle == activeId = NULL /\ ~isNewNote
Drafting == isNewNote /\ activeId = NewId
Viewing(id) == ~isNewNote /\ activeId = id

InFlight == BagToSet(net)

\* In a step: request r is issued / the continuation awaiting r runs.
Issued(r) == r.st = "sent" /\ CopiesIn(r, net') > CopiesIn(r, net)
Completed(r) == r.st # "sent" /\ CopiesIn(r, net') < CopiesIn(r, net)

\* Number of requests in flight that satisfy Test.
Count(Test(_)) ==
    LET rs == {r \in InFlight : Test(r)}
        sum[S \in SUBSET rs] ==
            IF S = {} THEN 0
            ELSE LET r == CHOOSE x \in S : TRUE
                 IN CopiesIn(r, net) + sum[S \ {r}]
    IN sum[rs]

IsMutating(r) == r.kind \in Mutating

Quiet == net = EmptyBag

-----------------------------------------------------------------------------
(* C1 *)

\* C1 as stated: the selection variables are Idle, Drafting, or Viewing(id)
\* for the id of a note in the list cache.
C1_SelectionIsListed ==
    \/ Idle
    \/ Drafting
    \/ \E id \in Ids(notes) : Viewing(id)

\* C1 as amended: the selection variables are Idle, Drafting, or Viewing(id)
\* for an id the server has assigned (it was listed when it was selected but
\* may have left the list cache since); create mode never coexists with a
\* real id and "new" never occurs outside create mode.
C1_SelectionShape ==
    /\ \/ Idle
       \/ Drafting
       \/ \E id \in AssignedIds : Viewing(id)
    /\ isNewNote => activeId = NewId
    /\ activeId = NewId => isNewNote

\* A selected id that is in the list cache no more, with nothing in flight.
C1_Witness ==
    /\ Quiet
    /\ \E id \in AssignedIds : Viewing(id) /\ id \notin Ids(notes)

-----------------------------------------------------------------------------
(* C2 *)

\* C2: no get, update or delete request carries the placeholder id "new".
C2_NewNeverSent ==
    \A r \in InFlight : r.kind \in {"get", "update", "delete"} => r.id # NewId

-----------------------------------------------------------------------------
(* C3 *)

\* C3: a request issued by handleSave is a create in create mode and else an
\* update of the note whose id is in activeId.
C3_SaveTargetsSelection ==
    [][\A r \in BagToSet(net') :
          Issued(r) /\ r.src = "save" =>
              IF isNewNote THEN r.kind = "create"
              ELSE r.kind = "update" /\ r.id = activeId]_vars

-----------------------------------------------------------------------------
(* C4 *)

\* C4: while a create, update or delete request is outstanding loading is
\* true, and at most one such request is outstanding.
C4_OneMutationAtATime ==
    /\ Count(IsMutating) > 0 => loading
    /\ Count(IsMutating) <= 1

-----------------------------------------------------------------------------
(* C5 *)

\* C5: from a state whose draft title and content are both empty no step
\* issues a create or update request: Save cannot be invoked there, so it
\* changes nothing.
C5_EmptySaveIsNoOp ==
    [][(localTitle = EmptyText /\ localContent = EmptyText) =>
          \A r \in BagToSet(net') : Issued(r) => r.src # "save"]_vars

\* The editor is open and enabled on a loaded note, nothing is in flight,
\* and both fields of the draft are empty.
C5_Witness ==
    /\ EditorShown /\ ~loading /\ Quiet
    /\ localTitle = EmptyText /\ localContent = EmptyText
    /\ ~isNewNote /\ activeNote[1].id = activeId

-----------------------------------------------------------------------------
(* C6 *)

\* Steps in which the continuation of a successful create runs, and in which
\* the continuation of the list request of refresh() runs after a success.
CreateSucceeded(r) == Completed(r) /\ r.kind = "create" /\ r.st = "ok"
RefreshSucceeded(r, cause) ==
    Completed(r) /\ r.src = "refresh" /\ r.cause = cause /\ r.st = "ok"

\* The first half of C6: a successful create leaves the selection Idle with
\* no active note and issues a list request.
C6_CreateDeselectsAndRefreshes ==
    \A r \in InFlight :
        CreateSucceeded(r) =>
            /\ Idle' /\ activeNote' = <<>>
            /\ Issued(refresh(r))

\* C6 as stated: ... and when that list request succeeds the list cache is
\* the list the server returned, which contains the created note.
C6_CreatedNoteListed ==
    [][/\ C6_CreateDeselectsAndRefreshes
       /\ \A r \in InFlight :
              RefreshSucceeded(r, "create") =>
                  notes' = r.resp /\ r.cid \in Ids(notes')]_vars

\* C6 as amended: ... which contains the created note unless that note has
\* been deleted on the server by then.
C6_CreatedNoteListedUnlessDeleted ==
    [][/\ C6_CreateDeselectsAndRefreshes
       /\ \A r \in InFlight :
              RefreshSucceeded(r, "create") =>
                  /\ notes' = r.resp
                  /\ r.cid \in Ids(notes') \/ r.cid \notin Ids(db)]_vars

\* A create has succeeded: Idle, and its list request is in flight.
C6_Witness ==
    /\ Idle /\ activeNote = <<>>
    /\ \E r \in InFlight : r.src = "refresh" /\ r.cause = "create" /\ r.cid \in Ids(db)

-----------------------------------------------------------------------------
(* C7 *)

\* C7: once the list refresh triggered by a successful delete has succeeded
\* the deleted id is in the list cache no more, whatever list response
\* arrives afterwards.
C7_DeletedStaysGone == \A id \in gone : id \notin Ids(notes)

-----------------------------------------------------------------------------
(* C8 *)

SaveIssued == \E r \in BagToSet(net') : Issued(r) /\ r.src = "save"
SaveFailed == \E r \in InFlight : Completed(r) /\ r.src = "save" /\ r.st = "fail"
ListIssued == \E r \in BagToSet(net') : Issued(r) /\ r.kind = "list"

-----------------------------------------------------------------------------
(* C9 *)

DeleteFailed(r) == Completed(r) /\ r.src = "delete" /\ r.st = "fail"

\* C9: the failure of a delete request sets the error slot to the
\* delete-failure message and leaves selection, active note, draft and list
\* cache as they are, and issues no list request.
C9_DeleteFailureKeepsState ==
    [][\A r \in InFlight :
          DeleteFailed(r) =>
              /\ error' = ErrDeleteNote
              /\ UNCHANGED <<isNewNote, activeId, activeNote, notes,
                             localTitle, localContent>>
              /\ ~ListIssued]_vars

\* A delete has failed; the note is still selected and in the editor.
C9_Witness ==
    /\ error = ErrDeleteNote /\ ~loading /\ Quiet
    /\ \E id \in Ids(notes) : Viewing(id) /\ activeNote # <<>> /\ activeNote[1].id = id
    /\ localTitle = activeNote[1].title

-----------------------------------------------------------------------------
(* C10 *)

FetchFailed(r) == Completed(r) /\ r.kind = "get" /\ r.st = "fail"

-----------------------------------------------------------------------------
(* C11 *)

IsList(r) == r.kind = "list"
IsMount(r) == r.src = "mount"

MutationSucceeded == \E r \in InFlight : Completed(r) /\ IsMutating(r) /\ r.st = "ok"

\* C11: one list request is in flight after mount; afterwards a step issues
\* a list request exactly when it is the continuation of a successful
\* create, update or delete, and then exactly one, by refresh(); the list
\* cache changes only in the continuation of a successful list request, to
\* the list the server returned.
C11_ListRequestsAndCache ==
    /\ Count(IsList) = 1 /\ Count(IsMount) = 1
    /\ [][/\ ListIssued <=> MutationSucceeded
          /\ MutationSucceeded =>
                 \E r \in BagToSet(net') :
                     /\ Issued(r) /\ r.src = "refresh"
                     /\ \A q \in BagToSet(net') : Issued(q) => q = r
                     /\ CopiesIn(r, net') = CopiesIn(r, net) + 1
          /\ notes' # notes =>
                 \E p \in InFlight :
                     Completed(p) /\ IsList(p) /\ p.st = "ok" /\ notes' = p.resp]_vars

\* An update has succeeded and its list request is in flight, while the
\* list cache still holds the note as it was listed before.
C11_Witness ==
    \E r \in InFlight :
        /\ r.src = "refresh" /\ r.cause = "update" /\ r.st = "sent"
        /\ r.cid \in Ids(notes)

-----------------------------------------------------------------------------
(* C12 *)

DraftChanged == <<localTitle, localContent>>' # <<localTitle, localContent>>

\* A step that types into the title input or the textarea: the draft
\* changes, no request is issued or completed, and it is not a click on New.
Typed == DraftChanged /\ net' = net /\ ~handleAddNew

\* C12: Edit changes the editor's draft only (no request, list cache,
\* selection, active note, loading flag and error slot unchanged) and does
\* not occur when nothing is selected or drafted.
C12_EditChangesDraftOnly ==
    [][Typed =>
          /\ UNCHANGED <<notes, activeId, activeNote, isNewNote, loading,
                         error, db, nextId, gone>>
          /\ ~Idle]_vars

\* The frame part of C12 alone.
C12_EditFrame ==
    [][Typed =>
          /\ UNCHANGED <<notes, activeId, activeNote, isNewNote, loading,
                         error, db, nextId, gone>>
          /\ EditorShown /\ ~loading]_vars



-----------------------------------------------------------------------------
(* C13 *)

\* C13: every click on a listed note issues a get request for its id, the
\* note whose id is already in activeId included.
C13_SelectAlwaysFetches ==
    \A id \in Ids(notes) :
        ENABLED (/\ handleSelectNote(id, Outstanding + 1)
                 /\ \E r \in BagToSet(net') :
                        Issued(r) /\ r.kind = "get" /\ r.id = id)


-----------------------------------------------------------------------------
(* C14 *)

Draft == <<localTitle, localContent>>

\* The editor holds edits that have not been saved.
Unsaved == EditorShown /\ Draft # DraftOf(activeNote)

\* C14: a click on a listed note while the editor holds unsaved edits
\* (issuing the get request of the selection) removes them from the draft.
C14_SelectDiscardsEdits ==
    [][\A r \in BagToSet(net') :
          Issued(r) /\ r.kind = "get" /\ Unsaved => Draft' # Draft]_vars


-----------------------------------------------------------------------------
(* C15 *)

\* The state New() is to yield: create mode, the placeholder as active note,
\* an empty draft.
FreshDraft ==
    /\ Drafting
    /\ activeNote = <<Placeholder>>
    /\ localTitle = EmptyText /\ localContent = EmptyText

\* C15: in every reachable state (Idle, Viewing, Drafting with or without
\* edits, with or without requests in flight) a click on New is possible
\* and every outcome of it is create mode with the placeholder and an empty
\* draft, no request having been issued or completed.
C15_NewYieldsFreshDraft ==
    /\ ENABLED handleAddNew
    /\ ~ENABLED (handleAddNew /\ ~(FreshDraft' /\ net' = net))

\* New has been clicked again while the create request of the previous
\* draft is outstanding: the editor is disabled and its draft is empty.
C15_Witness ==
    /\ FreshDraft /\ loading
    /\ \E r \in InFlight :
           r.kind = "create" /\ r.st = "sent" /\ r.title # EmptyText


-----------------------------------------------------------------------------
(* C16 *)

\* The message the failure of request r puts in the error slot.
Message(r) ==
    CASE r.kind = "list" -> ErrLoadNotes
      [] r.kind = "get" -> ErrFetchNote
      [] r.kind \in {"create", "update"} -> ErrSaveNote
      [] r.kind = "delete" -> ErrDeleteNote

Failed(r) == Completed(r) /\ r.st = "fail"

\* C16: the continuation of every failed request stores that failure's
\* message in the error slot; the slot changes in no other step except the
\* dismiss click, which sets it to null and changes nothing else.
C16_ErrorSlot ==
    [][/\ \A r \in InFlight : Failed(r) => error' = Message(r)
       /\ error' # error =>
              \/ \E r \in InFlight : Failed(r)
              \/ /\ error' = NULL
                 /\ UNCHANGED <<notes, activeId, activeNote, isNewNote,
                                loading, localTitle, localContent, net,
                                db, nextId, gone>>]_vars

\* The message of a failed fetch is still shown after a later save or
\* delete has succeeded and deselected the note.
C16_Witness == error = ErrFetchNote /\ Idle


-----------------------------------------------------------------------------
(* C17 *)

\* C17: the continuation of every successful get request stores the fetched
\* note as active note and as the editor's draft, whatever the selection has
\* become since the request was issued, and leaves the selection as it is.
C17_LateFetchApplied ==
    [][\A r \in InFlight :
          Completed(r) /\ r.kind = "get" /\ r.st = "ok" =>
              /\ activeNote' = r.resp
              /\ Draft' = DraftOf(r.resp)
              /\ UNCHANGED <<activeId, isNewNote>>]_vars

\* Nothing is in flight, one listed note is selected and the editor shows
\* another note.
C17_Witness ==
    /\ Quiet /\ error = NULL
    /\ \E b \in Ids(notes) :
           /\ Viewing(b)
           /\ activeNote # <<>>
           /\ activeNote[1].id \in Ids(notes) \ {b}
           /\ Draft = DraftOf(activeNote)


-----------------------------------------------------------------------------
(* C18 *)

\* C18: in create mode the active note is the placeholder, and a create
\* request is issued from that state only (so its title and content are the
\* user's own edits of an empty draft).
C18_DraftingShowsPlaceholder ==
    /\ [](isNewNote => activeNote = <<Placeholder>>)
    /\ [][\A r \in BagToSet(net') :
             Issued(r) /\ r.kind = "create" => activeNote = <<Placeholder>>]_vars


-----------------------------------------------------------------------------
(* C19 *)

NoFetchOutstanding == \A r \in InFlight : r.kind # "get"

\* C19: with nothing selected or drafted and no note fetch outstanding, the
\* active note is null: no editor is shown and neither Save nor Delete can
\* be clicked.
C19_IdleShowsNoEditor ==
    Idle /\ NoFetchOutstanding =>
        /\ activeNote = <<>>
        /\ ~EditorShown
        /\ ~ENABLED handleSave(Outstanding + 1)
        /\ ~ENABLED handleDelete(Outstanding + 1)


-----------------------------------------------------------------------------
(* C20 *)

\* The requests whose issuer sets the loading flag.
SetsLoading(r) == r.src \in {"mount", "effect", "save", "delete"}

\* C20: when no initial list load, note fetch, save or delete request is
\* outstanding, loading is false.
C20_LoadingNeverSticks == Count(SetsLoading) = 0 => ~loading

\* A save has failed and nothing is in flight: the editor is shown with its
\* controls enabled.
C20_Witness ==
    /\ Quiet /\ error = ErrSaveNote
    /\ EditorShown /\ ~loading
    /\ Draft # DraftOf(activeNote)

=============================================================================
